---- MODULE Spec2Model ----
(***************************************************************************)
(* Behavior-tree evaluator of src/src/node.rs: the node tree, the two      *)
(* dispatch maps (ConditionMap, ActionMap), the blackboard, and the        *)
(* recursive tick.  A tick is one atomic step: it runs to completion on    *)
(* the call stack.  Each tick leaves behind the execution trace of that    *)
(* call (nodes entered, map lookups, callback invocations, returns) in the *)
(* history variable `last`, on which the properties are stated.            *)
(***************************************************************************)
EXTENDS Naturals, Sequences, FiniteSets

\* ------------------------------------------------------------------ bounds
MaxNodes == 3       \* a tree has at most this many nodes
MaxBB == 1          \* the blackboard holds a value in 0..MaxBB
WorkTicks == 2      \* invocations a "Work" action needs before it succeeds
MaxTicks == 3       \* ticks of one evaluation session

\* Node ids (u64 in the source): two ids, so that nodes can share an id or not.
Ids == {1, 2}

\* ------------------------------------------------------------ data model
Status == {"Failure", "Success", "Running"}
NodeType == {"Sequence", "Condition", "Action"}

\* The outcome of a call that did not return: Option::unwrap() on None.
Panic == "Panic"

Node_new(id, node_type) ==
    [id |-> id, node_type |-> node_type, children |-> <<>>]

\* node.children.push(child) for every child of a forest, in order.
RECURSIVE TreesOfSize(_), ForestsOfSize(_)
TreesOfSize(n) ==
    IF n = 0 THEN {}
    ELSE { [Node_new(id, t) EXCEPT !.children = f] :
             id \in Ids, t \in NodeType, f \in ForestsOfSize(n - 1) }

ForestsOfSize(m) ==
    IF m = 0 THEN { <<>> }
    ELSE UNION { { <<c>> \o f : c \in TreesOfSize(k), f \in ForestsOfSize(m - k) } :
                 k \in 1..m }

Trees == UNION { TreesOfSize(n) : n \in 1..MaxNodes }

\* The trees of the data model: Sequence nodes are the composites, Condition
\* and Action nodes are leaves.  The Node type itself admits children on any
\* node (Trees).
RECURSIVE IsProper(_)
IsProper(node) ==
    /\ node.node_type = "Sequence" \/ node.children = <<>>
    /\ \A k \in DOMAIN node.children : IsProper(node.children[k])

ProperTrees == { t \in Trees : IsProper(t) }

\* Blackboard::new(): the blackboard is one counter cell, initially 0.
Blackboard_new == 0

\* The predicates a caller hands to Condition::new: on a fresh blackboard
\* "IsZero" is the always-true and "NonZero" the always-false predicate of the
\* tests, until an action changes the blackboard.
ConditionCbs == {"IsZero", "NonZero"}

Condition_new(cb) == [cb |-> cb]

\* Condition::evaluate: (self.cb)(blackboard)
Condition_evaluate(condition, blackboard) ==
    CASE condition.cb = "IsZero" -> blackboard = 0
      [] condition.cb = "NonZero" -> blackboard # 0

\* The closures a caller hands to Action::new.  `n` is the state the closure
\* captures: "Work" counts its invocations and reports Running until it has
\* been invoked WorkTicks times; "Bump" increments the blackboard cell,
\* counting its increments, and fails once the cell is full.
ActionCbs == {"Work", "Bump"}

Action_new(cb) == [cb |-> cb, n |-> 0]

\* Action::execute: (self.cb)(blackboard); the status returned, the closure
\* after the call and the blackboard after the call.
Action_execute(action, blackboard) ==
    CASE action.cb = "Work" ->
           IF action.n < WorkTicks
           THEN [status |-> "Running", action |-> [action EXCEPT !.n = @ + 1],
                 blackboard |-> blackboard]
           ELSE [status |-> "Success", action |-> action, blackboard |-> blackboard]
      [] action.cb = "Bump" ->
           IF blackboard < MaxBB
           THEN [status |-> "Success", action |-> [action EXCEPT !.n = @ + 1],
                 blackboard |-> blackboard + 1]
           ELSE [status |-> "Failure", action |-> action, blackboard |-> blackboard]

\* HashMap::new / HashMap::insert / HashMap::get
HashMap_new == << >>

\* Mutant: entry(k).or_insert(v), an existing entry is kept.
HashMap_insert_keep(m, k, v) ==
    [x \in (DOMAIN m) \cup {k} |-> IF x \in DOMAIN m THEN m[x] ELSE v]

HashMap_insert(m, k, v) ==
    [x \in (DOMAIN m) \cup {k} |-> IF x = k THEN v ELSE m[x]]

\* HashMap::get / get_mut: Some(value) or None.
None == [some |-> FALSE]

HashMap_get(m, k) ==
    IF k \in DOMAIN m THEN [some |-> TRUE, value |-> m[k]] ELSE None

ConditionMap_new == HashMap_new
ActionMap_new == HashMap_new

add_condition(conditions, node_id, condition) ==
    HashMap_insert(conditions, node_id, condition)

add_action(actions, node_id, action) ==
    HashMap_insert(actions, node_id, action)

\* Option::unwrap: the value of Some, a panic on None.
unwrap(option) ==
    IF option.some THEN [panic |-> FALSE, value |-> option.value]
    ELSE [panic |-> TRUE]

\* Mutant: unwrap_or(default), a missing entry yields a default predicate.
get_condition_or_default(conditions, node_id) ==
    IF HashMap_get(conditions, node_id).some
    THEN unwrap(HashMap_get(conditions, node_id))
    ELSE [panic |-> FALSE, value |-> Condition_new("NonZero")]

get_condition(conditions, node_id) == unwrap(HashMap_get(conditions, node_id))

get_action(actions, node_id) == unwrap(HashMap_get(actions, node_id))

\* -------------------------------------------------------------- evaluator
\* The result of a call: the status returned (or Panic), the blackboard and
\* the action map as the call left them, and the trace of the call.
Result(status, blackboard, action_map, trace) ==
    [status |-> status, blackboard |-> blackboard, action_map |-> action_map,
     trace |-> trace]

\* Mutant: the predicate is handed a cleared blackboard, which is kept.
execute_condition_node_clears(node, blackboard, condition_map, action_map) ==
    LET got == get_condition(condition_map, node.id)
        lookup == [ev |-> "get_condition", id |-> node.id, found |-> ~got.panic]
    IN  IF got.panic
        THEN Result(Panic, blackboard, action_map, <<lookup>>)
        ELSE LET b == Condition_evaluate(got.value, Blackboard_new)
                 call == [ev |-> "evaluate", id |-> node.id, bb |-> Blackboard_new,
                          bbAfter |-> Blackboard_new, ret |-> b]
             IN  Result(IF b THEN "Success" ELSE "Failure",
                        Blackboard_new, action_map, <<lookup, call>>)

\* Mutant: a predicate that does not hold yet is reported as Running.
execute_condition_node_running(node, blackboard, condition_map, action_map) ==
    LET got == get_condition(condition_map, node.id)
        lookup == [ev |-> "get_condition", id |-> node.id, found |-> ~got.panic]
    IN  IF got.panic
        THEN Result(Panic, blackboard, action_map, <<lookup>>)
        ELSE LET b == Condition_evaluate(got.value, blackboard)
                 call == [ev |-> "evaluate", id |-> node.id, bb |-> blackboard,
                          bbAfter |-> blackboard, ret |-> b]
             IN  Result(IF b THEN "Success" ELSE "Running",
                        blackboard, action_map, <<lookup, call>>)

\* Mutant: the two branches of the if swapped.
execute_condition_node_inverted(node, blackboard, condition_map, action_map) ==
    LET got == get_condition(condition_map, node.id)
        lookup == [ev |-> "get_condition", id |-> node.id, found |-> ~got.panic]
    IN  IF got.panic
        THEN Result(Panic, blackboard, action_map, <<lookup>>)
        ELSE LET b == Condition_evaluate(got.value, blackboard)
                 call == [ev |-> "evaluate", id |-> node.id, bb |-> blackboard,
                          bbAfter |-> blackboard, ret |-> b]
             IN  Result(IF b THEN "Failure" ELSE "Success",
                        blackboard, action_map, <<lookup, call>>)

execute_condition_node(node, blackboard, condition_map, action_map) ==
    LET got == get_condition(condition_map, node.id)
        lookup == [ev |-> "get_condition", id |-> node.id, found |-> ~got.panic]
    IN  IF got.panic
        THEN Result(Panic, blackboard, action_map, <<lookup>>)
        ELSE LET condition == got.value
                 b == Condition_evaluate(condition, blackboard)
                 call == [ev |-> "evaluate", id |-> node.id, bb |-> blackboard,
                          bbAfter |-> blackboard, ret |-> b]
             IN  Result(IF b THEN "Success" ELSE "Failure",
                        blackboard, action_map, <<lookup, call>>)

\* Mutant: the action is executed on a copy of the map's entry, the entry
\* itself keeps its state.
execute_action_node_copy(node, blackboard, action_map) ==
    LET got == get_action(action_map, node.id)
        lookup == [ev |-> "get_action", id |-> node.id, found |-> ~got.panic]
    IN  IF got.panic
        THEN Result(Panic, blackboard, action_map, <<lookup>>)
        ELSE LET r == Action_execute(got.value, blackboard)
                 call == [ev |-> "execute", id |-> node.id, bb |-> blackboard,
                          bbAfter |-> r.blackboard, st |-> got.value,
                          stAfter |-> r.action, ret |-> r.status]
             IN  Result(r.status, r.blackboard, action_map, <<lookup, call>>)

\* Mutant: a status the action reports as Running is handed on as Failure.
execute_action_node_no_running(node, blackboard, action_map) ==
    LET got == get_action(action_map, node.id)
        lookup == [ev |-> "get_action", id |-> node.id, found |-> ~got.panic]
    IN  IF got.panic
        THEN Result(Panic, blackboard, action_map, <<lookup>>)
        ELSE LET r == Action_execute(got.value, blackboard)
                 call == [ev |-> "execute", id |-> node.id, bb |-> blackboard,
                          bbAfter |-> r.blackboard, st |-> got.value,
                          stAfter |-> r.action, ret |-> r.status]
             IN  Result(IF r.status = "Running" THEN "Failure" ELSE r.status,
                        r.blackboard,
                        [action_map EXCEPT ![node.id] = r.action],
                        <<lookup, call>>)

execute_action_node(node, blackboard, action_map) ==
    LET got == get_action(action_map, node.id)
        lookup == [ev |-> "get_action", id |-> node.id, found |-> ~got.panic]
    IN  IF got.panic
        THEN Result(Panic, blackboard, action_map, <<lookup>>)
        ELSE LET action == got.value
                 r == Action_execute(action, blackboard)
                 call == [ev |-> "execute", id |-> node.id, bb |-> blackboard,
                          bbAfter |-> r.blackboard, st |-> action,
                          stAfter |-> r.action, ret |-> r.status]
             IN  Result(r.status, r.blackboard,
                        [action_map EXCEPT ![node.id] = r.action],
                        <<lookup, call>>)

RECURSIVE tick(_, _, _, _, _), sequence_loop(_, _, _, _, _, _)

\* Mutant: the children are iterated from the last to the first.
sequence_loop_reversed(node, path, i, blackboard, condition_map, action_map) ==
    IF i > Len(node.children)
    THEN Result("Success", blackboard, action_map, <<>>)
    ELSE LET c == Len(node.children) + 1 - i
             r == tick(node.children[c], Append(path, c), blackboard,
                       condition_map, action_map)
         IN  IF r.status = Panic THEN r
             ELSE IF r.status = "Running"
             THEN Result("Running", r.blackboard, r.action_map, r.trace)
             ELSE IF r.status = "Failure"
             THEN Result("Failure", r.blackboard, r.action_map, r.trace)
             ELSE LET rest == sequence_loop(node, path, i + 1, r.blackboard,
                                            condition_map, r.action_map)
                  IN  [rest EXCEPT !.trace = r.trace \o @]

\* Mutant: tick is called in each comparison: a child that is not running is
\* ticked a second time to see whether it fails.
sequence_loop_tick_twice(node, path, i, blackboard, condition_map, action_map) ==
    IF i > Len(node.children)
    THEN Result("Success", blackboard, action_map, <<>>)
    ELSE LET r == tick(node.children[i], Append(path, i), blackboard,
                       condition_map, action_map)
         IN  IF r.status = Panic THEN r
             ELSE IF r.status = "Running"
             THEN Result("Running", r.blackboard, r.action_map, r.trace)
             ELSE LET q == tick(node.children[i], Append(path, i), r.blackboard,
                                condition_map, r.action_map)
                      both == r.trace \o q.trace
                  IN  IF q.status = Panic THEN [q EXCEPT !.trace = both]
                      ELSE IF q.status = "Failure"
                      THEN Result("Failure", q.blackboard, q.action_map, both)
                      ELSE LET rest == sequence_loop(node, path, i + 1, q.blackboard,
                                                     condition_map, q.action_map)
                           IN  [rest EXCEPT !.trace = both \o @]

\* Mutant: a sequence that does not succeed undoes what its children did: it
\* leaves the blackboard and the action map as it was entered with.
sequence_loop_rollback(node, path, i, blackboard, condition_map, action_map) ==
    IF i > Len(node.children)
    THEN Result("Success", blackboard, action_map, <<>>)
    ELSE LET r == tick(node.children[i], Append(path, i), blackboard,
                       condition_map, action_map)
         IN  IF r.status = Panic
             THEN Result(Panic, blackboard, action_map, r.trace)
             ELSE IF r.status = "Running"
             THEN Result("Running", blackboard, action_map, r.trace)
             ELSE IF r.status = "Failure"
             THEN Result("Failure", blackboard, action_map, r.trace)
             ELSE LET rest == sequence_loop(node, path, i + 1, r.blackboard,
                                            condition_map, r.action_map)
                  IN  IF rest.status = "Success"
                      THEN [rest EXCEPT !.trace = r.trace \o @]
                      ELSE Result(rest.status, blackboard, action_map,
                                  r.trace \o rest.trace)

\* Mutant: the Failure branch is missing, a failed child is stepped over.
sequence_loop_ignore_failure(node, path, i, blackboard, condition_map, action_map) ==
    IF i > Len(node.children)
    THEN Result("Success", blackboard, action_map, <<>>)
    ELSE LET r == tick(node.children[i], Append(path, i), blackboard,
                       condition_map, action_map)
         IN  IF r.status = Panic THEN r
             ELSE IF r.status = "Running"
             THEN Result("Running", r.blackboard, r.action_map, r.trace)
             ELSE LET rest == sequence_loop(node, path, i + 1, r.blackboard,
                                            condition_map, r.action_map)
                  IN  [rest EXCEPT !.trace = r.trace \o @]

\* Mutant: the Running branch is missing, a running child is stepped over.
sequence_loop_ignore_running(node, path, i, blackboard, condition_map, action_map) ==
    IF i > Len(node.children)
    THEN Result("Success", blackboard, action_map, <<>>)
    ELSE LET r == tick(node.children[i], Append(path, i), blackboard,
                       condition_map, action_map)
         IN  IF r.status = Panic THEN r
             ELSE IF r.status = "Failure"
             THEN Result("Failure", r.blackboard, r.action_map, r.trace)
             ELSE LET rest == sequence_loop(node, path, i + 1, r.blackboard,
                                            condition_map, r.action_map)
                  IN  [rest EXCEPT !.trace = r.trace \o @]

\* Mutant: the loop of a selector (fallback) node: the first child that
\* succeeds ends it with Success, a failed child is stepped over.
sequence_loop_selector(node, path, i, blackboard, condition_map, action_map) ==
    IF i > Len(node.children)
    THEN Result("Failure", blackboard, action_map, <<>>)
    ELSE LET r == tick(node.children[i], Append(path, i), blackboard,
                       condition_map, action_map)
         IN  IF r.status = Panic THEN r
             ELSE IF r.status = "Running"
             THEN Result("Running", r.blackboard, r.action_map, r.trace)
             ELSE IF r.status = "Success"
             THEN Result("Success", r.blackboard, r.action_map, r.trace)
             ELSE LET rest == sequence_loop(node, path, i + 1, r.blackboard,
                                            condition_map, r.action_map)
                  IN  [rest EXCEPT !.trace = r.trace \o @]

\* Mutant: every child is ticked on the blackboard and the action map the
\* sequence was entered with, and the sequence leaves them as the last child did.
sequence_loop_stale(node, path, i, blackboard, condition_map, action_map) ==
    IF i > Len(node.children)
    THEN Result("Success", blackboard, action_map, <<>>)
    ELSE LET r == tick(node.children[i], Append(path, i), blackboard,
                       condition_map, action_map)
         IN  IF r.status = Panic THEN r
             ELSE IF r.status = "Running"
             THEN Result("Running", r.blackboard, r.action_map, r.trace)
             ELSE IF r.status = "Failure"
             THEN Result("Failure", r.blackboard, r.action_map, r.trace)
             ELSE IF i = Len(node.children)
             THEN Result("Success", r.blackboard, r.action_map, r.trace)
             ELSE LET rest == sequence_loop(node, path, i + 1, blackboard,
                                            condition_map, action_map)
                  IN  [rest EXCEPT !.trace = r.trace \o @]

\* The for loop of execute_sequence_node from child i on.
sequence_loop(node, path, i, blackboard, condition_map, action_map) ==
    IF i > Len(node.children)
    THEN Result("Success", blackboard, action_map, <<>>)
    ELSE LET r == tick(node.children[i], Append(path, i), blackboard,
                       condition_map, action_map)
         IN  IF r.status = Panic THEN r
             ELSE IF r.status = "Running"
             THEN Result("Running", r.blackboard, r.action_map, r.trace)
             ELSE IF r.status = "Failure"
             THEN Result("Failure", r.blackboard, r.action_map, r.trace)
             ELSE LET rest == sequence_loop(node, path, i + 1, r.blackboard,
                                            condition_map, r.action_map)
                  IN  [rest EXCEPT !.trace = r.trace \o @]

\* Mutant: a sequence without children reports Failure.
execute_sequence_node_empty_fails(node, path, blackboard, condition_map, action_map) ==
    IF Len(node.children) = 0
    THEN Result("Failure", blackboard, action_map, <<>>)
    ELSE sequence_loop(node, path, 1, blackboard, condition_map, action_map)

\* Mutant: a memorized resume point: the loop starts at the first child that
\* is an action in progress (invoked before, not yet done), if there is one.
execute_sequence_node_resume(node, path, blackboard, condition_map, action_map) ==
    LET inProgress == { i \in 1..Len(node.children) :
                          /\ node.children[i].node_type = "Action"
                          /\ node.children[i].id \in DOMAIN action_map
                          /\ action_map[node.children[i].id].n > 0
                          /\ Action_execute(action_map[node.children[i].id],
                                            blackboard).status = "Running" }
        start == IF inProgress = {} THEN 1
                 ELSE CHOOSE i \in inProgress : \A j \in inProgress : i <= j
    IN  sequence_loop(node, path, start, blackboard, condition_map, action_map)

execute_sequence_node(node, path, blackboard, condition_map, action_map) ==
    sequence_loop(node, path, 1, blackboard, condition_map, action_map)

\* Mutant: every node is a composite: a Condition or Action node that
\* succeeds goes on to tick its children like a Sequence.
tick_any_children(node, path, blackboard, condition_map, action_map) ==
    LET enter == [ev |-> "tick", path |-> path, id |-> node.id,
                  node_type |-> node.node_type]
        own == CASE node.node_type = "Sequence" ->
                      Result("Success", blackboard, action_map, <<>>)
                 [] node.node_type = "Condition" ->
                      execute_condition_node(node, blackboard, condition_map,
                                             action_map)
                 [] node.node_type = "Action" ->
                      execute_action_node(node, blackboard, action_map)
        r == IF own.status # "Success" THEN own
             ELSE LET rest == execute_sequence_node(node, path, own.blackboard,
                                                    condition_map, own.action_map)
                  IN  [rest EXCEPT !.trace = own.trace \o @]
    IN  IF r.status = Panic
        THEN [r EXCEPT !.trace = <<enter>> \o @]
        ELSE [r EXCEPT !.trace = <<enter>> \o @ \o
                         <<[ev |-> "return", path |-> path, status |-> r.status]>>]

\* tick on the node at `path` (the child indices from the root).
tick(node, path, blackboard, condition_map, action_map) ==
    LET enter == [ev |-> "tick", path |-> path, id |-> node.id,
                  node_type |-> node.node_type]
        r == CASE node.node_type = "Sequence" ->
                    execute_sequence_node(node, path, blackboard, condition_map,
                                          action_map)
               [] node.node_type = "Condition" ->
                    execute_condition_node(node, blackboard, condition_map,
                                           action_map)
               [] node.node_type = "Action" ->
                    execute_action_node(node, blackboard, action_map)
    IN  IF r.status = Panic
        THEN [r EXCEPT !.trace = <<enter>> \o @]
        ELSE [r EXCEPT !.trace = <<enter>> \o @ \o
                         <<[ev |-> "return", path |-> path, status |-> r.status]>>]

\* ------------------------------------------------------------------ state
VARIABLES
    tree,            \* the root Node
    blackboard,      \* the caller's Blackboard
    condition_map,   \* ConditionMap.conditions
    action_map,      \* ActionMap.actions
    ticks,           \* tick calls made so far
    panicked,        \* a tick has panicked: the session is over
    last             \* history: the most recent operation and what it did

vars == <<tree, blackboard, condition_map, action_map, ticks, panicked, last>>

NoOp == [op |-> "none"]

ConditionMaps ==
    UNION { [D -> {Condition_new(cb) : cb \in ConditionCbs}] : D \in SUBSET Ids }

ActionMaps ==
    UNION { [D -> {Action_new(cb) : cb \in ActionCbs}] : D \in SUBSET Ids }

\* The caller has built a tree and registered callbacks; nothing ticked yet.
Init ==
    /\ tree \in ProperTrees
    /\ blackboard = Blackboard_new
    /\ condition_map \in ConditionMaps
    /\ action_map \in ActionMaps
    /\ ticks = 0
    /\ panicked = FALSE
    /\ last = NoOp

\* Mutant: an evaluator with memory: a root Sequence whose last tick ended at
\* child k with Running or Failure is resumed at child k.
Tick_resume ==
    /\ ~panicked
    /\ ticks < MaxTicks
    /\ LET resume == /\ last.op = "tick"
                      /\ tree.node_type = "Sequence"
                      /\ last.status \in {"Running", "Failure"}
           ended(k) == \E i \in DOMAIN last.trace :
                           /\ last.trace[i].ev = "return"
                           /\ last.trace[i].path = <<k>>
                           /\ last.trace[i].status = last.status
           start == IF resume
                    THEN CHOOSE k \in 1..Len(tree.children) : ended(k)
                    ELSE 1
           enter == [ev |-> "tick", path |-> <<>>, id |-> tree.id,
                     node_type |-> tree.node_type]
           body == sequence_loop(tree, <<>>, start, blackboard, condition_map,
                                 action_map)
           r == IF ~resume
                THEN tick(tree, <<>>, blackboard, condition_map, action_map)
                ELSE IF body.status = Panic
                THEN [body EXCEPT !.trace = <<enter>> \o @]
                ELSE [body EXCEPT !.trace = <<enter>> \o @ \o
                        <<[ev |-> "return", path |-> <<>>, status |-> body.status]>>]
       IN  /\ blackboard' = r.blackboard
           /\ action_map' = r.action_map
           /\ panicked' = (r.status = Panic)
           /\ last' = [op |-> "tick", status |-> r.status, trace |-> r.trace,
                       blackboard |-> blackboard, action_map |-> action_map]
    /\ ticks' = ticks + 1
    /\ UNCHANGED <<tree, condition_map>>

\* status = tick(&tree, &mut blackboard, &condition_map, &mut action_map)
Tick ==
    /\ ~panicked
    /\ ticks < MaxTicks
    /\ LET r == tick(tree, <<>>, blackboard, condition_map, action_map)
       IN  /\ blackboard' = r.blackboard
           /\ action_map' = r.action_map
           /\ panicked' = (r.status = Panic)
           /\ last' = [op |-> "tick", status |-> r.status, trace |-> r.trace,
                       blackboard |-> blackboard, action_map |-> action_map]
    /\ ticks' = ticks + 1
    /\ UNCHANGED <<tree, condition_map>>

Next == Tick

Spec == Init /\ [][Next]_vars

\* The same session on any tree the Node type admits: Condition and Action
\* nodes may have been given children too.
InitAny ==
    /\ tree \in Trees
    /\ blackboard = Blackboard_new
    /\ condition_map \in ConditionMaps
    /\ action_map \in ActionMaps
    /\ ticks = 0
    /\ panicked = FALSE
    /\ last = NoOp

SpecAny == InitAny /\ [][Next]_vars

\* The registration phase on its own: both maps start empty and the caller
\* registers callbacks, in any order and any number of times.
InitMaps ==
    /\ tree = Node_new(1, "Sequence")
    /\ blackboard = Blackboard_new
    /\ condition_map = ConditionMap_new
    /\ action_map = ActionMap_new
    /\ ticks = 0
    /\ panicked = FALSE
    /\ last = NoOp

AddCondition ==
    \E node_id \in Ids, cb \in ConditionCbs :
        /\ condition_map' = add_condition(condition_map, node_id, Condition_new(cb))
        /\ last' = [op |-> "add_condition", node_id |-> node_id,
                    condition |-> Condition_new(cb),
                    condition_map |-> condition_map, action_map |-> action_map]
        /\ UNCHANGED <<tree, blackboard, action_map, ticks, panicked>>

AddAction ==
    \E node_id \in Ids, cb \in ActionCbs :
        /\ action_map' = add_action(action_map, node_id, Action_new(cb))
        /\ last' = [op |-> "add_action", node_id |-> node_id,
                    action |-> Action_new(cb),
                    condition_map |-> condition_map, action_map |-> action_map]
        /\ UNCHANGED <<tree, blackboard, condition_map, ticks, panicked>>

NextMaps == AddCondition \/ AddAction

SpecMaps == InitMaps /\ [][NextMaps]_vars

\* ------------------------------------------------- reading a tick's trace
IsTick == last.op = "tick"

IsPrefix(p, q) == Len(p) <= Len(q) /\ SubSeq(q, 1, Len(p)) = p

RECURSIVE NodeAt(_, _)
NodeAt(node, path) ==
    IF path = <<>> THEN node ELSE NodeAt(node.children[Head(path)], Tail(path))

NumChildren(path) == Len(NodeAt(tree, path).children)

\* The positions at which tick was called on the node at `path`.
EnterIdx(tr, path) == { i \in DOMAIN tr : tr[i].ev = "tick" /\ tr[i].path = path }

Entered(tr, path) == EnterIdx(tr, path) # {}

\* The statuses tick returned for the node at `path`.
Returns(tr, path) ==
    { tr[i].status : i \in { j \in DOMAIN tr : tr[j].ev = "return" /\ tr[j].path = path } }

Returned(tr, path, status) == status \in Returns(tr, path)

IsCall(e) == e.ev \in {"evaluate", "execute"}

IsLookup(e) == e.ev \in {"get_condition", "get_action"}

\* The node a lookup or a callback invocation at position e was made for: the
\* node entered last before it.
Owner(tr, e) ==
    LET S == { i \in 1..e : tr[i].ev = "tick" }
    IN  tr[CHOOSE i \in S : \A j \in S : j <= i].path

\* The blackboard as the callbacks invoked before position i left it.
BBAt(bb0, tr, i) ==
    LET S == { j \in 1..(i - 1) : IsCall(tr[j]) }
    IN  IF S = {} THEN bb0 ELSE tr[CHOOSE j \in S : \A k \in S : k <= j].bbAfter

\* The action registered under id as its invocations before position i left it.
StAt(am0, tr, i, id) ==
    LET S == { j \in 1..(i - 1) : tr[j].ev = "execute" /\ tr[j].id = id }
    IN  IF S = {} THEN am0[id] ELSE tr[CHOOSE j \in S : \A k \in S : k <= j].stAfter

\* What the call of tick on the node at `path` yielded: for the root, what the
\* caller got.
StatusOf(tr, path) ==
    IF path = <<>> THEN last.status
    ELSE IF Returns(tr, path) = {} THEN Panic
    ELSE CHOOSE s \in Returns(tr, path) : TRUE

\* Nothing of the subtree of the node at `path` was touched: no node of it
\* entered, and so no lookup and no callback made for one.
Untouched(tr, path) ==
    \A e \in DOMAIN tr :
        (tr[e].ev = "tick" \/ IsLookup(tr[e]) \/ IsCall(tr[e]))
            => ~IsPrefix(path, Owner(tr, e))

\* ----------------------------------------------------------------- claims

\* C1: a Condition node with a registered id returns Success if its predicate
\* is true on the blackboard it is ticked with, Failure if not, never Running.
ConditionNodeStatus ==
    IsTick =>
        \A i \in DOMAIN last.trace :
            LET e == last.trace[i] IN
            (e.ev = "tick" /\ e.node_type = "Condition" /\ e.id \in DOMAIN condition_map)
            => LET bb == BBAt(last.blackboard, last.trace, i)
                   want == IF Condition_evaluate(condition_map[e.id], bb)
                           THEN "Success" ELSE "Failure"
               IN  /\ Returns(last.trace, e.path) = {want}
                   /\ StatusOf(last.trace, e.path) = want
                   /\ StatusOf(last.trace, e.path) # "Running"

\* C1 witness: a Condition node reported Failure for a predicate that was true
\* on the fresh blackboard, after an action had changed the blackboard.
ConditionNodeWitness ==
    /\ IsTick
    /\ \E i \in DOMAIN last.trace :
           /\ last.trace[i].ev = "tick"
           /\ last.trace[i].node_type = "Condition"
           /\ last.trace[i].id \in DOMAIN condition_map
           /\ condition_map[last.trace[i].id].cb = "IsZero"
           /\ Returned(last.trace, last.trace[i].path, "Failure")

\* Child k of the sequence at `path` is the first child that returned `status`,
\* and no earlier child returned Failure or Running.
FirstToReturn(tr, path, k, status) ==
    /\ Returned(tr, Append(path, k), status)
    /\ \A j \in 1..(k - 1) :
           /\ ~Returned(tr, Append(path, j), "Failure")
           /\ ~Returned(tr, Append(path, j), "Running")

ShortCircuit(tr, status) ==
    \A i \in DOMAIN tr :
        (tr[i].ev = "tick" /\ tr[i].node_type = "Sequence")
        => \A k \in 1..NumChildren(tr[i].path) :
               FirstToReturn(tr, tr[i].path, k, status)
               => /\ StatusOf(tr, tr[i].path) = status
                  /\ \A j \in (k + 1)..NumChildren(tr[i].path) :
                         Untouched(tr, Append(tr[i].path, j))

\* C2: when child k is the first child of a Sequence to return Failure (no
\* earlier child returned Running), the Sequence returns Failure and nothing
\* in the subtrees of the children after k is evaluated on that tick.
SequenceFailureShortCircuit == IsTick => ShortCircuit(last.trace, "Failure")

\* C2 witness: the first child of a two-child root Sequence failed.
SequenceFailureWitness ==
    /\ IsTick
    /\ tree.node_type = "Sequence"
    /\ Len(tree.children) = 2
    /\ Returned(last.trace, <<1>>, "Failure")
    /\ last.status = "Failure"

\* C3: when child k is the first child of a Sequence to return Running (no
\* earlier child returned Failure), the Sequence returns Running and no child
\* after k is evaluated on that tick.
SequenceRunningShortCircuit == IsTick => ShortCircuit(last.trace, "Running")

\* C3 witness: the first child of a two-child root Sequence is running.
SequenceRunningWitness ==
    /\ IsTick
    /\ tree.node_type = "Sequence"
    /\ Len(tree.children) = 2
    /\ Returned(last.trace, <<1>>, "Running")
    /\ last.status = "Running"

\* C4: a tick of a Sequence returns Success if and only if every child was
\* ticked during that tick and each returned Success.
SequenceSuccessIff ==
    IsTick =>
        \A i \in DOMAIN last.trace :
            LET e == last.trace[i] IN
            (e.ev = "tick" /\ e.node_type = "Sequence")
            => ( StatusOf(last.trace, e.path) = "Success"
                 <=> \A k \in 1..NumChildren(e.path) :
                         /\ Entered(last.trace, Append(e.path, k))
                         /\ Returns(last.trace, Append(e.path, k)) = {"Success"} )

\* C4 witness: a root Sequence with two children returned Success.
SequenceSuccessWitness ==
    /\ IsTick
    /\ tree.node_type = "Sequence"
    /\ Len(tree.children) = 2
    /\ last.status = "Success"
    /\ Returned(last.trace, <<2>>, "Success")

\* C5: a Sequence with no children returns Success, whatever the blackboard
\* and the maps hold, with no lookup and no callback: tick enters and returns.
EmptySequenceSucceeds ==
    IsTick =>
        \A i \in DOMAIN last.trace :
            LET e == last.trace[i] IN
            (e.ev = "tick" /\ e.node_type = "Sequence" /\ NumChildren(e.path) = 0)
            => /\ StatusOf(last.trace, e.path) = "Success"
               /\ i + 1 \in DOMAIN last.trace
               /\ last.trace[i + 1] = [ev |-> "return", path |-> e.path,
                                       status |-> "Success"]

\* C5 witness: a childless Sequence was ticked after an action had changed
\* the blackboard, with callbacks registered in both maps.
EmptySequenceWitness ==
    /\ IsTick
    /\ last.blackboard # Blackboard_new
    /\ DOMAIN condition_map # {}
    /\ DOMAIN action_map # {}
    /\ \E i \in DOMAIN last.trace :
           /\ last.trace[i].ev = "tick"
           /\ last.trace[i].node_type = "Sequence"
           /\ NumChildren(last.trace[i].path) = 0

\* A tick step: `last` holds the tick before it and last' the tick it made.
TickAfterTick == last.op = "tick" /\ last'.op = "tick" /\ ticks' = ticks + 1

EnterPos(tr, path) == CHOOSE i \in EnterIdx(tr, path) : TRUE

\* The callback invocations made for the node at `path`.
CallsFor(tr, path) == { e \in DOMAIN tr : IsCall(tr[e]) /\ Owner(tr, e) = path }

\* In trace tr1 the sequence at `path` is evaluated from its first child on:
\* child 1 is ticked, and a child is ticked only after every child before it
\* has been ticked and, if it is a leaf, has had its callback invoked.
FromFirstChild(tr1, path) ==
    /\ Entered(tr1, Append(path, 1))
    /\ \A k \in 1..NumChildren(path) :
           Entered(tr1, Append(path, k))
           => \A j \in 1..(k - 1) :
                  /\ Entered(tr1, Append(path, j))
                  /\ EnterPos(tr1, Append(path, j)) < EnterPos(tr1, Append(path, k))
                  /\ NodeAt(tree, Append(path, j)).node_type # "Sequence"
                       => \E c \in CallsFor(tr1, Append(path, j)) :
                              c < EnterPos(tr1, Append(path, k))

\* The root is a Sequence whose only child is an Action, registered, whose
\* callback reports Running when invoked in state st on blackboard bb.
LoneRunningAction(st, bb) ==
    /\ tree.node_type = "Sequence"
    /\ Len(tree.children) = 1
    /\ tree.children[1].node_type = "Action"
    /\ tree.children[1].id \in DOMAIN st
    /\ Action_execute(st[tree.children[1].id], bb).status = "Running"

NumExecutes(tr) == Cardinality({ e \in DOMAIN tr : tr[e].ev = "execute" })

\* C6: a Sequence that returned Running on one tick is evaluated from its first
\* child again when it is ticked next: no child is reached without every child
\* before it having been ticked (and its callback invoked) again on that tick.
\* A Sequence whose only child is an Action that keeps reporting Running returns
\* Running on two consecutive ticks, the callback invoked once on each.
RetickRestartsAtFirstChild ==
    [][ TickAfterTick =>
          /\ \A i \in DOMAIN last.trace :
                 LET e == last.trace[i] IN
                 ( /\ e.ev = "tick"
                   /\ e.node_type = "Sequence"
                   /\ StatusOf(last.trace, e.path) = "Running"
                   /\ Entered(last'.trace, e.path) )
                 => FromFirstChild(last'.trace, e.path)
          /\ ( LoneRunningAction(last.action_map, last.blackboard)
               /\ LoneRunningAction(action_map, blackboard) )
             => /\ last.status = "Running"
                /\ last'.status = "Running"
                /\ NumExecutes(last.trace) = 1
                /\ NumExecutes(last'.trace) = 1
      ]_vars

\* C6 witness: the second child of a two-child root Sequence, an action, was
\* running on the first tick; the second tick evaluated the first child again
\* and reached the action again, still running.
RetickWitness ==
    /\ IsTick
    /\ ticks = 2
    /\ tree.node_type = "Sequence"
    /\ Len(tree.children) = 2
    /\ tree.children[2].node_type = "Action"
    /\ CallsFor(last.trace, <<1>>) # {}
    /\ Returned(last.trace, <<2>>, "Running")
    /\ action_map[tree.children[2].id].n = 2

\* C7: an Action node with a registered id invokes the registered callback
\* exactly once and returns the status that invocation reported, unchanged.
ActionNodeStatus ==
    IsTick =>
        \A i \in DOMAIN last.trace :
            LET e == last.trace[i] IN
            (e.ev = "tick" /\ e.node_type = "Action" /\ e.id \in DOMAIN action_map)
            => LET st == StAt(last.action_map, last.trace, i, e.id)
                   bb == BBAt(last.blackboard, last.trace, i)
                   r == Action_execute(st, bb)
               IN  /\ Returns(last.trace, e.path) = {r.status}
                   /\ StatusOf(last.trace, e.path) = r.status
                   /\ Cardinality(CallsFor(last.trace, e.path)) = 1
                   /\ \A c \in CallsFor(last.trace, e.path) :
                          /\ last.trace[c].ev = "execute"
                          /\ last.trace[c].id = e.id
                          /\ last.trace[c].ret = r.status

\* C7 witness: an Action node reported Running, and the tick returned it.
ActionNodeWitness ==
    /\ IsTick
    /\ tree.node_type = "Action"
    /\ tree.id \in DOMAIN action_map
    /\ last.status = "Running"
    /\ NumExecutes(last.trace) = 1

\* Every callback invoked in trace tr saw the blackboard (and, an action, its
\* own state) as the invocation before it left it, the first one as bb0 (am0);
\* bb1 (am1) is what the last one left.
Carried(bb0, am0, tr, bb1, am1) ==
    /\ \A e \in DOMAIN tr : IsCall(tr[e]) => tr[e].bb = BBAt(bb0, tr, e)
    /\ \A e \in DOMAIN tr :
           tr[e].ev = "execute" => tr[e].st = StAt(am0, tr, e, tr[e].id)
    /\ bb1 = BBAt(bb0, tr, Len(tr) + 1)
    /\ DOMAIN am1 = DOMAIN am0
    /\ \A id \in DOMAIN am0 : am1[id] = StAt(am0, tr, Len(tr) + 1, id)

\* C8: a callback sees the blackboard exactly as the callback invoked before it
\* left it, in this tick or an earlier one, and an action is invoked in the
\* state its own previous invocation left: a tick starts from the blackboard
\* and action map the tick before ended with, hands them from callback to
\* callback, and ends with what the last callback left.
BlackboardPersists ==
    [][ (last'.op = "tick" /\ ticks' = ticks + 1)
          => Carried(blackboard, action_map, last'.trace, blackboard', action_map')
      ]_vars

\* C8 witness: on a later tick the first callback invoked saw a blackboard
\* that an action of an earlier tick had changed.
BlackboardPersistsWitness ==
    /\ IsTick
    /\ ticks >= 2
    /\ \E e \in DOMAIN last.trace :
           /\ IsCall(last.trace[e])
           /\ \A f \in 1..(e - 1) : ~IsCall(last.trace[f])
           /\ last.trace[e].bb # Blackboard_new

\* The node entered at position i is a Condition or an Action whose id has no
\* entry in its map.
Unregistered(tr, i) ==
    /\ tr[i].ev = "tick"
    /\ \/ tr[i].node_type = "Condition" /\ tr[i].id \notin DOMAIN condition_map
       \/ tr[i].node_type = "Action" /\ tr[i].id \notin DOMAIN action_map

\* C9: a tick that reaches a Condition or Action node whose id is not
\* registered panics at that node's lookup: the lookup is the last thing the
\* tick does, and neither the node nor any caller yields a Status.  A tick
\* that reaches no such node returns a Status.
UnregisteredPanics ==
    IsTick =>
        /\ \A i \in DOMAIN last.trace :
               Unregistered(last.trace, i)
               => /\ last.status = Panic
                  /\ panicked
                  /\ Len(last.trace) = i + 1
                  /\ IsLookup(last.trace[i + 1])
                  /\ \A j \in DOMAIN last.trace :
                         last.trace[j].ev = "return"
                         => ~IsPrefix(last.trace[j].path, last.trace[i].path)
        /\ (\A i \in DOMAIN last.trace : ~Unregistered(last.trace, i))
               => last.status \in Status /\ ~panicked

RECURSIVE HasUnregistered(_)
HasUnregistered(node) ==
    \/ node.node_type = "Condition" /\ node.id \notin DOMAIN condition_map
    \/ node.node_type = "Action" /\ node.id \notin DOMAIN action_map
    \/ \E k \in DOMAIN node.children : HasUnregistered(node.children[k])

\* C9 witness: a tree with an unregistered node ticked normally while
\* short-circuiting kept the node out of reach, and panicked on the tick that
\* reached it.
UnregisteredPanicsWitness ==
    /\ IsTick
    /\ ticks >= 2
    /\ panicked
    /\ last.status = Panic
    /\ HasUnregistered(tree)

\* C10: add_condition and add_action replace the entry of an id that has one:
\* after an add the lookup of that id yields the callback just given, and the
\* entries of all other ids, in both maps, are as before.
AddOverwrites ==
    /\ last.op = "add_condition"
       => /\ get_condition(condition_map, last.node_id)
               = [panic |-> FALSE, value |-> last.condition]
          /\ \A id \in Ids \ {last.node_id} :
                 HashMap_get(condition_map, id) = HashMap_get(last.condition_map, id)
          /\ action_map = last.action_map
    /\ last.op = "add_action"
       => /\ get_action(action_map, last.node_id)
               = [panic |-> FALSE, value |-> last.action]
          /\ \A id \in Ids \ {last.node_id} :
                 HashMap_get(action_map, id) = HashMap_get(last.action_map, id)
          /\ condition_map = last.condition_map

\* C10 witness: an add replaced a different callback registered under the
\* same id, with another id registered too.
AddOverwritesWitness ==
    /\ last.op = "add_action"
    /\ last.node_id \in DOMAIN last.action_map
    /\ last.action_map[last.node_id] # last.action
    /\ DOMAIN last.action_map = Ids

RECURSIVE HasNodeType(_, _)
HasNodeType(node, node_type) ==
    \/ node.node_type = node_type
    \/ \E k \in DOMAIN node.children : HasNodeType(node.children[k], node_type)

\* The least element of a non-empty set of positions.
First(S) == CHOOSE i \in S : \A j \in S : i <= j

\* The blackboard as the callback invoked at position e left it: what the next
\* callback was handed or, after the last callback, what the tick left.
BBLeft(tr, e) ==
    LET S == { f \in (e + 1)..Len(tr) : IsCall(tr[f]) }
    IN  IF S = {} THEN blackboard ELSE tr[First(S)].bb

\* The action registered under id as the callback invoked at position e left it.
StLeft(tr, e, id) ==
    LET S == { f \in (e + 1)..Len(tr) : tr[f].ev = "execute" /\ tr[f].id = id }
    IN  IF S = {} THEN action_map[id] ELSE tr[First(S)].st

\* C12: ticking a Condition node leaves the blackboard and every registered
\* action as they were; a tick of a tree without Action nodes leaves the
\* blackboard (and the action map) unchanged.
ConditionLeavesStateAlone ==
    IsTick =>
        /\ \A e \in DOMAIN last.trace :
               last.trace[e].ev = "evaluate"
               => /\ BBLeft(last.trace, e) = BBAt(last.blackboard, last.trace, e)
                  /\ \A id \in DOMAIN action_map :
                         StLeft(last.trace, e, id)
                             = StAt(last.action_map, last.trace, e, id)
        /\ (tree.node_type = "Condition" \/ ~HasNodeType(tree, "Action"))
               => /\ blackboard = last.blackboard
                  /\ action_map = last.action_map

\* C12 witness: a predicate was evaluated on a blackboard that an action had
\* changed and whose own state had changed.
ConditionLeavesStateAloneWitness ==
    /\ IsTick
    /\ blackboard # Blackboard_new
    /\ \E id \in DOMAIN action_map : action_map[id].n > 0
    /\ \E e \in DOMAIN last.trace :
           /\ last.trace[e].ev = "evaluate"
           /\ last.trace[e].bb # Blackboard_new

\* The positions at which a node of this type with this id was entered.
EnteredWith(tr, node_type, id) ==
    { i \in DOMAIN tr : /\ tr[i].ev = "tick"
                        /\ tr[i].node_type = node_type
                        /\ tr[i].id = id }

ExecutesOf(tr, id) == { e \in DOMAIN tr : tr[e].ev = "execute" /\ tr[e].id = id }

EvaluatesOf(tr, id) == { e \in DOMAIN tr : tr[e].ev = "evaluate" /\ tr[e].id = id }

\* C13: dispatch is by node id alone.  Condition nodes that share a registered
\* id all evaluate the one predicate registered under it; Action nodes that
\* share a registered id all execute the one action registered under it, each
\* in the state the invocation before it left, so a tick that reaches two of
\* them invokes that action twice.
SharedIdSharesCallback ==
    IsTick =>
        \A id \in Ids :
            /\ id \in DOMAIN condition_map
               => /\ Cardinality(EvaluatesOf(last.trace, id))
                       = Cardinality(EnteredWith(last.trace, "Condition", id))
                  /\ \A e \in EvaluatesOf(last.trace, id) :
                         last.trace[e].ret
                             = Condition_evaluate(condition_map[id], last.trace[e].bb)
            /\ id \in DOMAIN action_map
               => /\ Cardinality(ExecutesOf(last.trace, id))
                       = Cardinality(EnteredWith(last.trace, "Action", id))
                  /\ \A e \in ExecutesOf(last.trace, id) :
                         /\ last.trace[e].st = StAt(last.action_map, last.trace, e, id)
                         /\ last.trace[e].st.cb = action_map[id].cb
                         /\ last.trace[e].ret
                              = Action_execute(last.trace[e].st, last.trace[e].bb).status
                         /\ StLeft(last.trace, e, id) = last.trace[e].stAfter

\* C13 witness: one tick reached two Action nodes with the same id; the second
\* invocation found the state the first had changed.
SharedIdWitness ==
    /\ IsTick
    /\ \E id \in DOMAIN action_map :
           /\ Cardinality(EnteredWith(last.trace, "Action", id)) = 2
           /\ Cardinality(ExecutesOf(last.trace, id)) = 2
           /\ \E e, f \in ExecutesOf(last.trace, id) :
                  /\ e < f
                  /\ last.trace[e].st # last.trace[e].stAfter
                  /\ last.trace[f].st = last.trace[e].stAfter

\* The leaves of the tree below `node`, depth first and left to right: the
\* paths of the Condition and Action nodes that have only Sequence nodes above.
RECURSIVE LeafPaths(_, _), LeafPathsFrom(_, _, _)
LeafPaths(node, path) ==
    IF node.node_type = "Sequence" THEN LeafPathsFrom(node, path, 1) ELSE <<path>>

LeafPathsFrom(node, path, k) ==
    IF k > Len(node.children) THEN <<>>
    ELSE LeafPaths(node.children[k], Append(path, k)) \o LeafPathsFrom(node, path, k + 1)

IsLeafEntry(e) == e.ev = "tick" /\ e.node_type # "Sequence"

IsEvaluate(e) == e.ev = "evaluate"

\* The paths of the leaves a tick evaluated, in the order it evaluated them.
EvaluatedLeaves(tr) ==
    LET entries == SelectSeq(tr, IsLeafEntry)
    IN  [i \in 1..Len(entries) |-> entries[i].path]

\* The root is Sequence[Condition, Condition], both registered, and the first
\* predicate holds on blackboard bb.
TwoConditions(bb) ==
    /\ tree.node_type = "Sequence"
    /\ Len(tree.children) = 2
    /\ \A k \in 1..2 : /\ tree.children[k].node_type = "Condition"
                       /\ tree.children[k].id \in DOMAIN condition_map
    /\ Condition_evaluate(condition_map[tree.children[1].id], bb)

\* C14: the leaves a tick evaluates are a prefix of the tree's depth-first,
\* left-to-right leaf order, evaluated in that order, each once.  For
\* Sequence[Condition, Condition] with a true first predicate the tick invokes
\* the first predicate and then the second, once each.
LeavesInOrder ==
    IsTick =>
        /\ IsPrefix(EvaluatedLeaves(last.trace), LeafPaths(tree, <<>>))
        /\ \A i \in DOMAIN last.trace :
               IsLeafEntry(last.trace[i])
               => /\ Cardinality(EnterIdx(last.trace, last.trace[i].path)) = 1
                  /\ Cardinality(CallsFor(last.trace, last.trace[i].path)) <= 1
        /\ TwoConditions(last.blackboard)
               => LET evals == SelectSeq(last.trace, IsEvaluate)
                  IN  /\ Len(evals) = 2
                      /\ evals[1].id = tree.children[1].id
                      /\ evals[2].id = tree.children[2].id

\* C14 witness: Sequence[Condition(true), Condition(false)] was ticked and
\* returned Failure after both predicates were invoked.
LeavesInOrderWitness ==
    /\ IsTick
    /\ TwoConditions(last.blackboard)
    /\ last.status = "Failure"
    /\ EvaluatedLeaves(last.trace) = << <<1>>, <<2>> >>
    /\ tree.children[1].id # tree.children[2].id

ReturnIdx(tr, path) == { i \in DOMAIN tr : tr[i].ev = "return" /\ tr[i].path = path }

NumCalls(tr) == Cardinality({ e \in DOMAIN tr : IsCall(tr[e]) })

\* C15: a tick that reaches only registered nodes runs to completion: it
\* returns one Status, every call of tick it made on a node has returned by
\* then (none is left suspended), and it invoked at most one callback for
\* each leaf of the tree.
TickRunsToCompletion ==
    (IsTick /\ \A i \in DOMAIN last.trace : ~Unregistered(last.trace, i))
    => /\ last.status \in Status
       /\ last.trace[Len(last.trace)]
              = [ev |-> "return", path |-> <<>>, status |-> last.status]
       /\ \A i \in DOMAIN last.trace :
              last.trace[i].ev = "tick"
              => /\ Cardinality(ReturnIdx(last.trace, last.trace[i].path)) = 1
                 /\ \A r \in ReturnIdx(last.trace, last.trace[i].path) : i < r
       /\ NumCalls(last.trace) <= Len(LeafPaths(tree, <<>>))
       /\ \A i \in DOMAIN last.trace :
              IsLeafEntry(last.trace[i])
              => Cardinality(CallsFor(last.trace, last.trace[i].path)) = 1

\* C15 witness: a tick of a nested tree went through every leaf and returned.
TickRunsToCompletionWitness ==
    /\ IsTick
    /\ last.status = "Success"
    /\ Len(LeafPaths(tree, <<>>)) = 2
    /\ NumCalls(last.trace) = 2
    /\ NumExecutes(last.trace) >= 1

\* The status a callback invocation produced for its leaf.
Produced(e) ==
    IF e.ev = "execute" THEN e.ret
    ELSE IF e.ret THEN "Success" ELSE "Failure"

\* The status of the last leaf evaluated between positions i and r of the
\* trace, Success if there is none.
LastLeafStatus(tr, i, r) ==
    LET S == { e \in i..r : IsCall(tr[e]) }
    IN  IF S = {} THEN "Success"
        ELSE Produced(tr[CHOOSE e \in S : \A f \in S : f <= e])

\* C16: the status a tick returns, for the tree and for every subtree it
\* ticked, is the status of the last leaf evaluated in it, or Success if none
\* was; so Running is returned only when the last callback invoked was an
\* action that reported Running, and never by a tree without Action nodes.
StatusIsLastLeafStatus ==
    (IsTick /\ last.status # Panic)
    => /\ last.status = LastLeafStatus(last.trace, 1, Len(last.trace))
       /\ \A i \in DOMAIN last.trace :
              last.trace[i].ev = "tick"
              => \A r \in ReturnIdx(last.trace, last.trace[i].path) :
                     last.trace[r].status = LastLeafStatus(last.trace, i, r)
       /\ last.status = "Running"
              => \E e \in DOMAIN last.trace :
                     /\ last.trace[e].ev = "execute"
                     /\ last.trace[e].ret = "Running"
                     /\ \A f \in (e + 1)..Len(last.trace) : ~IsCall(last.trace[f])
       /\ ~HasNodeType(tree, "Action") => last.status # "Running"

\* C16 witness: a tick returned Running, which the action evaluated last had
\* reported, after a leaf evaluated before it had succeeded.
StatusIsLastLeafWitness ==
    /\ IsTick
    /\ last.status = "Running"
    /\ NumCalls(last.trace) = 2
    /\ \E e \in DOMAIN last.trace :
           IsCall(last.trace[e]) /\ Produced(last.trace[e]) = "Success"

\* C17: no rollback.  When a tick of a Sequence ends at a child with Failure,
\* with Running or in the panic of an unregistered lookup, the blackboard and
\* every action are left as the callbacks invoked before that point left them.
NoRollback ==
    ( /\ IsTick
      /\ tree.node_type = "Sequence"
      /\ last.status \in {"Failure", "Running", Panic} )
    => /\ blackboard = BBAt(last.blackboard, last.trace, Len(last.trace) + 1)
       /\ DOMAIN action_map = DOMAIN last.action_map
       /\ \A id \in DOMAIN action_map :
              action_map[id] = StAt(last.action_map, last.trace,
                                    Len(last.trace) + 1, id)

\* C17 witness: the first child, an action, changed the blackboard and its own
\* state, then the lookup of the second child panicked: both changes stand.
NoRollbackWitness ==
    /\ IsTick
    /\ tree.node_type = "Sequence"
    /\ last.status = Panic
    /\ Returned(last.trace, <<1>>, "Success")
    /\ blackboard # last.blackboard
    /\ action_map # last.action_map

\* The tree with the children of every Condition and Action node removed.
RECURSIVE Stripped(_)
Stripped(node) ==
    IF node.node_type = "Sequence"
    THEN [node EXCEPT !.children = [k \in DOMAIN node.children |->
                                        Stripped(node.children[k])]]
    ELSE [node EXCEPT !.children = <<>>]

Parent(path) == SubSeq(path, 1, Len(path) - 1)

\* C18: the children of a Condition or Action node are never ticked: only
\* children of Sequence nodes are, and the tick returns the status, makes the
\* lookups and invocations and leaves the state that a tick of the tree without
\* such children does.  Every lookup is made for a Condition node in the
\* ConditionMap or an Action node in the ActionMap, under that node's id: the
\* id of a Sequence node is never looked up.
OnlySequencesTickChildren ==
    IsTick =>
        /\ \A i \in DOMAIN last.trace :
               (last.trace[i].ev = "tick" /\ last.trace[i].path # <<>>)
               => NodeAt(tree, Parent(last.trace[i].path)).node_type = "Sequence"
        /\ LET r == tick(Stripped(tree), <<>>, last.blackboard, condition_map,
                         last.action_map)
           IN  /\ last.status = r.status
               /\ last.trace = r.trace
               /\ blackboard = r.blackboard
               /\ action_map = r.action_map
        /\ \A e \in DOMAIN last.trace :
               IsLookup(last.trace[e])
               => LET owner == NodeAt(tree, Owner(last.trace, e))
                  IN  /\ last.trace[e - 1].ev = "tick"
                      /\ owner.id = last.trace[e].id
                      /\ owner.node_type =
                             IF last.trace[e].ev = "get_condition"
                             THEN "Condition" ELSE "Action"
        /\ \A i \in DOMAIN last.trace :
               (last.trace[i].ev = "tick" /\ last.trace[i].node_type = "Sequence")
               => CallsFor(last.trace, last.trace[i].path) = {}

\* C18 witness: an Action node with a child of its own, below a Sequence whose
\* id is registered in no map, was ticked and succeeded.
OnlySequencesTickChildrenWitness ==
    /\ IsTick
    /\ tree.node_type = "Sequence"
    /\ tree.id \notin DOMAIN condition_map
    /\ tree.id \notin DOMAIN action_map
    /\ Len(tree.children) = 1
    /\ tree.children[1].node_type = "Action"
    /\ Len(tree.children[1].children) = 1
    /\ last.status = "Success"

====
